---- MODULE Spec2Model ----
(***************************************************************************)
(* custom_function_call: the functorch dispatch operator for               *)
(* autograd.Function (torch/_functorch/autograd_function.py).              *)
(*                                                                         *)
(* The model is a call-stack machine.  A top-level call of                 *)
(* custom_function_call is made by the caller (Call); each execution of    *)
(* CustomFunctionPyOperator.__call__ is one of CallBypass, CallGrad or     *)
(* CallStub; the generated forward of the Grad rule resumes after its      *)
(* redispatch in ExitScopes, WrapOutputs and SetupContext; an error        *)
(* unwinds one handler frame per Unwind step.                              *)
(***************************************************************************)
EXTENDS Integers, Sequences, FiniteSets, TLC

VARIABLES
    stack,      \* the active interpreter stack, bottom first: <<[level, type]>>
    lowered,    \* interpreters temporarily popped by interpreter.lower()
    grad_enabled,               \* torch.is_grad_enabled()
    autograd_function_enabled,  \* the flag set by enable_autograd_function()
    pc,         \* "idle", "call", "return", "raise"
    args,       \* arguments of the pending custom_function_call
    frames,     \* active custom_function_call_grad invocations, outermost first
    ret,        \* value being returned
    exc,        \* error being propagated
    next_id,    \* identity given to the next object created
    pre,        \* state of the shared resources when the caller made the call
    log,        \* what the current top-level call has invoked, in order
    nodes       \* Generated functions recorded by the last call, by level

vars == <<stack, lowered, grad_enabled, autograd_function_enabled, pc, args,
          frames, ret, exc, next_id, pre, log, nodes>>

-----------------------------------------------------------------------------
(* Bounds *)

MaxDepth == 3       \* transforms the caller nests

NumTensors == 2     \* plain tensors the caller owns

\* identities below this one belong to the caller's tensors and wrappers
FirstFreshId == NumTensors * (MaxDepth + 1) + 1

-----------------------------------------------------------------------------
(* Values: tensors, wrappers, non-tensor leaves, containers *)

None == [kind |-> "none"]

Tensor(i) == [kind |-> "tensor", id |-> i]

TensorWrapper(i, l, v) == [kind |-> "wrapper", id |-> i, level |-> l, value |-> v]

NoError == "none"

IntLeaf == [kind |-> "int", val |-> "7"]

StrLeaf == [kind |-> "str", val |-> "s"]

List(c) == [kind |-> "list", ch |-> c]

Tuple(c) == [kind |-> "tuple", ch |-> c]

isinstance_Tensor(x) == x.kind \in {"tensor", "wrapper"}

IsNode(x) == x.kind \in {"list", "tuple"}

\* id(x); the identities of tensors are positive and no other object has one
id(x) == IF isinstance_Tensor(x) THEN x.id ELSE 0

Range(q) == {q[i] : i \in 1..Len(q)}

Max(S) == CHOOSE m \in S : \A n \in S : n <= m

RECURSIVE Concat(_)
Concat(ss) == IF ss = <<>> THEN <<>> ELSE Head(ss) \o Concat(Tail(ss))

RECURSIVE Sum(_)
Sum(ns) == IF ns = <<>> THEN 0 ELSE Head(ns) + Sum(Tail(ns))

-----------------------------------------------------------------------------
(* pytree *)

RECURSIVE tree_leaves(_)
tree_leaves(t) ==
    IF IsNode(t)
    THEN Concat([i \in 1..Len(t.ch) |-> tree_leaves(t.ch[i])])
    ELSE <<t>>

Hole == [kind |-> "*"]

RECURSIVE tree_spec(_)
tree_spec(t) ==
    IF IsNode(t)
    THEN [kind |-> t.kind, ch |-> [i \in 1..Len(t.ch) |-> tree_spec(t.ch[i])]]
    ELSE Hole

RECURSIVE num_leaves(_)
num_leaves(s) ==
    IF IsNode(s)
    THEN Sum([i \in 1..Len(s.ch) |-> num_leaves(s.ch[i])])
    ELSE 1

RECURSIVE tree_unflatten(_, _)
tree_unflatten(leaves, s) ==
    IF IsNode(s)
    THEN LET off(i) == Sum([j \in 1..(i - 1) |-> num_leaves(s.ch[j])])
         IN [kind |-> s.kind,
             ch |-> [i \in 1..Len(s.ch) |->
                       tree_unflatten(SubSeq(leaves, off(i) + 1,
                                             off(i) + num_leaves(s.ch[i])),
                                      s.ch[i])]]
    ELSE leaves[1]

-----------------------------------------------------------------------------
(* Wrapper primitives *)

_unwrap_for_grad(x, level) ==
    IF x.kind = "wrapper" /\ x.level = level THEN x.value ELSE x

_wrap_for_grad(x, level, newid) == TensorWrapper(newid, level, x)

\* a mistake for tree_map_only_Tensor: the outermost wrapper of a tensor is
\* taken off whatever level owns it
RECURSIVE tree_map_only_Tensor_AnyLevel(_, _)
tree_map_only_Tensor_AnyLevel(level, t) ==
    IF IsNode(t)
    THEN [kind |-> t.kind,
          ch |-> [i \in 1..Len(t.ch) |->
                     tree_map_only_Tensor_AnyLevel(level, t.ch[i])]]
    ELSE IF isinstance_Tensor(t) /\ t.kind = "wrapper" THEN t.value ELSE t

\* pytree.tree_map_only(torch.Tensor, lambda x: _unwrap_for_grad(x, level), t)
RECURSIVE tree_map_only_Tensor(_, _)
tree_map_only_Tensor(level, t) ==
    IF IsNode(t)
    THEN [kind |-> t.kind,
          ch |-> [i \in 1..Len(t.ch) |-> tree_map_only_Tensor(level, t.ch[i])]]
    ELSE IF isinstance_Tensor(t) THEN _unwrap_for_grad(t, level) ELSE t

-----------------------------------------------------------------------------
(* Identity-preserving output wrapper *)

\* the output leaves that are wrapped afresh
fresh_positions(outputs, unwrapped_inputs) ==
    LET flat_outputs == tree_leaves(outputs)
        keys == {id(x) : x \in Range(tree_leaves(unwrapped_inputs))}
    IN {i \in 1..Len(flat_outputs) :
          isinstance_Tensor(flat_outputs[i]) /\ id(flat_outputs[i]) \notin keys}

\* a mistake for wrap_outputs_maintaining_identity: a tensor that is not one of
\* the inputs is returned as it is
wrap_outputs_FreshUnwrapped(outputs, unwrapped_inputs, orig_inputs, level) ==
    LET flat_unwrapped_inputs == tree_leaves(unwrapped_inputs)
        flat_orig_inputs == tree_leaves(orig_inputs)
        n == IF Len(flat_unwrapped_inputs) < Len(flat_orig_inputs)
             THEN Len(flat_unwrapped_inputs) ELSE Len(flat_orig_inputs)
        keys == {id(flat_unwrapped_inputs[i]) : i \in 1..n}
        unwrapped_input_to_orig_input(k) ==
            flat_orig_inputs[Max({i \in 1..n : id(flat_unwrapped_inputs[i]) = k})]
        flat_outputs == tree_leaves(outputs)
        spec == tree_spec(outputs)
        result == [i \in 1..Len(flat_outputs) |->
                     LET output == flat_outputs[i]
                     IN IF ~isinstance_Tensor(output) THEN output
                        ELSE IF id(output) \in keys
                             THEN unwrapped_input_to_orig_input(id(output))
                             ELSE output]
    IN tree_unflatten(result, spec)

\* a mistake for wrap_outputs_maintaining_identity: every tensor is wrapped
wrap_outputs_AlwaysWrap(outputs, unwrapped_inputs, orig_inputs, level) ==
    LET flat_outputs == tree_leaves(outputs)
        spec == tree_spec(outputs)
        tensors == {i \in 1..Len(flat_outputs) : isinstance_Tensor(flat_outputs[i])}
        result == [i \in 1..Len(flat_outputs) |->
                     LET output == flat_outputs[i]
                     IN IF ~isinstance_Tensor(output) THEN output
                        ELSE _wrap_for_grad(output, level,
                                next_id + Cardinality({j \in tensors : j < i}))]
    IN tree_unflatten(result, spec)

\* a mistake for wrap_outputs_maintaining_identity: the flat list is returned
wrap_outputs_Flat(outputs, unwrapped_inputs, orig_inputs, level) ==
    LET flat_unwrapped_inputs == tree_leaves(unwrapped_inputs)
        flat_orig_inputs == tree_leaves(orig_inputs)
        n == IF Len(flat_unwrapped_inputs) < Len(flat_orig_inputs)
             THEN Len(flat_unwrapped_inputs) ELSE Len(flat_orig_inputs)
        keys == {id(flat_unwrapped_inputs[i]) : i \in 1..n}
        unwrapped_input_to_orig_input(k) ==
            flat_orig_inputs[Max({i \in 1..n : id(flat_unwrapped_inputs[i]) = k})]
        flat_outputs == tree_leaves(outputs)
        fresh == {i \in 1..Len(flat_outputs) :
                    isinstance_Tensor(flat_outputs[i]) /\ id(flat_outputs[i]) \notin keys}
        result == [i \in 1..Len(flat_outputs) |->
                     LET output == flat_outputs[i]
                     IN IF ~isinstance_Tensor(output) THEN output
                        ELSE IF id(output) \in keys
                             THEN unwrapped_input_to_orig_input(id(output))
                             ELSE _wrap_for_grad(output, level,
                                    next_id + Cardinality({j \in fresh : j < i}))]
    IN List(result)

wrap_outputs_maintaining_identity(outputs, unwrapped_inputs, orig_inputs, level) ==
    LET flat_unwrapped_inputs == tree_leaves(unwrapped_inputs)
        flat_orig_inputs == tree_leaves(orig_inputs)
        \* zip stops at the shorter sequence
        n == IF Len(flat_unwrapped_inputs) < Len(flat_orig_inputs)
             THEN Len(flat_unwrapped_inputs) ELSE Len(flat_orig_inputs)
        keys == {id(flat_unwrapped_inputs[i]) : i \in 1..n}
        \* a dict comprehension keeps the last value given for a key
        unwrapped_input_to_orig_input(k) ==
            flat_orig_inputs[Max({i \in 1..n : id(flat_unwrapped_inputs[i]) = k})]
        flat_outputs == tree_leaves(outputs)
        spec == tree_spec(outputs)
        fresh == {i \in 1..Len(flat_outputs) :
                    isinstance_Tensor(flat_outputs[i]) /\ id(flat_outputs[i]) \notin keys}
        result == [i \in 1..Len(flat_outputs) |->
                     LET output == flat_outputs[i]
                     IN IF ~isinstance_Tensor(output) THEN output
                        ELSE IF id(output) \in keys
                             THEN unwrapped_input_to_orig_input(id(output))
                             ELSE _wrap_for_grad(output, level,
                                    next_id + Cardinality({j \in fresh : j < i}))]
    IN tree_unflatten(result, spec)

-----------------------------------------------------------------------------
(* The interpreter stack and the handlers registered per transform type *)

TransformType == {"Grad", "Vmap", "Jvp", "Functionalize"}

\* a transform type for which this module registers no handler
UnregisteredType == "Other"

LayerTypes == TransformType \cup {UnregisteredType}

\* the table has no entry for the type
NoKernel == "none"

\* the error of looking up a type that has no entry
UnregisteredTransformType == "UnregisteredTransformType"

Layer(l, t) == [level |-> l, type |-> t]

NoLayer == Layer(0, "none")

Top(s) == s[Len(s)]

Front(s) == SubSeq(s, 1, Len(s) - 1)

\* a mistake for _are_functorch_transforms_active: the last layer is not counted
_are_functorch_transforms_active_AboveOne == Len(stack) > 1

\* torch._C._are_functorch_transforms_active()
_are_functorch_transforms_active == stack # <<>>

\* a mistake for functorch_table: the grad rule stands in for any type that
\* has no rule of its own
functorch_table_GradByDefault(type) ==
    CASE type = "Vmap" -> "custom_function_call_vmap"
      [] type = "Jvp" -> "custom_function_call_jvp"
      [] type = "Functionalize" -> "custom_function_call_functionalize"
      [] OTHER -> "custom_function_call_grad"

\* a mistake for functorch_table: the jvp rule registered under Vmap as well
functorch_table_JvpForVmap(type) ==
    CASE type = "Grad" -> "custom_function_call_grad"
      [] type = "Vmap" -> "custom_function_call_jvp"
      [] type = "Jvp" -> "custom_function_call_jvp"
      [] type = "Functionalize" -> "custom_function_call_functionalize"
      [] OTHER -> NoKernel

\* a mistake for functorch_table: the grad rule registered under Vmap as well
functorch_table_GradForVmap(type) ==
    CASE type = "Grad" -> "custom_function_call_grad"
      [] type = "Vmap" -> "custom_function_call_grad"
      [] type = "Jvp" -> "custom_function_call_jvp"
      [] type = "Functionalize" -> "custom_function_call_functionalize"
      [] OTHER -> NoKernel

\* custom_function_call.py_impl(TransformType.X) registrations
functorch_table(type) ==
    CASE type = "Grad" -> "custom_function_call_grad"
      [] type = "Vmap" -> "custom_function_call_vmap"
      [] type = "Jvp" -> "custom_function_call_jvp"
      [] type = "Functionalize" -> "custom_function_call_functionalize"
      [] OTHER -> NoKernel

StubHandlers == {"custom_function_call_vmap", "custom_function_call_jvp",
                 "custom_function_call_functionalize"}

\* what a function call comes to: a value returned or an error raised
Returns(v) == [exc |-> NoError, value |-> v]

Raises(e) == [exc |-> e, value |-> None]

\* a mistake for custom_function_call_vmap: it hands back its first operand
\* instead of raising
custom_function_call_vmap_PassThrough(interpreter, autograd_function, operands) ==
    Returns(operands[1])

custom_function_call_vmap(interpreter, autograd_function, operands) ==
    Raises("NYI: vmap rule for custom_function_call")

\* a mistake for custom_function_call_jvp: it returns instead of raising
custom_function_call_jvp_Silent(interpreter, autograd_function, operands) ==
    Returns(None)

custom_function_call_jvp(interpreter, autograd_function, operands) ==
    Raises("NYI: jvp rule for custom_function_call")

custom_function_call_functionalize(interpreter, autograd_function, operands) ==
    Raises("NYI: Functionalize rule for custom_function_call")

\* kernel(interpreter, *args) for a kernel that is one of the three stubs
stub_kernel(handler, interpreter, autograd_function, operands) ==
    CASE handler = "custom_function_call_vmap" ->
            custom_function_call_vmap(interpreter, autograd_function, operands)
      [] handler = "custom_function_call_jvp" ->
            custom_function_call_jvp(interpreter, autograd_function, operands)
      [] handler = "custom_function_call_functionalize" ->
            custom_function_call_functionalize(interpreter, autograd_function, operands)

-----------------------------------------------------------------------------
(* The caller's inputs: function descriptors and operands *)

ForwardError == "error raised by forward"

SetupContextError == "error raised by setup_context"

BackwardError == "error raised by backward"

\* An autograd.Function: what its forward returns, and which of its
\* staticmethods raises (setup_context: in the call made for context `at`,
\* 0 being the Function's own apply and L the Generated function of level L).
Descriptors ==
    {[forward |-> k, raises |-> "none", at |-> 0] :
        k \in {"input1", "input2", "mixed"}}
    \cup {[forward |-> "fresh", raises |-> e, at |-> 0] : e \in {"forward", "backward"}}
    \cup {[forward |-> "fresh", raises |-> "setup_context", at |-> l] : l \in 0..MaxDepth}

\* f.forward(*operands); a tensor it creates gets identity newid
forward(f, operands, newid) ==
    CASE f.forward = "input1" -> operands[1]
      [] f.forward = "input2" -> operands[Len(operands)]
      [] f.forward = "fresh" -> Tensor(newid)
      [] f.forward = "mixed" ->
            List(<<operands[1], List(<<Tensor(newid), IntLeaf>>), StrLeaf>>)

creates_tensor(f) == f.forward \in {"fresh", "mixed"}

\* f.backward(ctx, *grads)
backward(f, ctx, grads) == [kind |-> "grads", ctx |-> ctx, of |-> grads]

\* f.setup_context(ctx, outputs, *operands): what it leaves for backward
setup_context(f, ctx, outputs, operands) ==
    [kind |-> "saved", ctx |-> ctx, outputs |-> outputs, operands |-> operands]

\* the context object the autograd engine keeps for the node of a level
Ctx(level) == [kind |-> "ctx", level |-> level]

\* the gradients the autograd engine passes to a backward
Grads == {[kind |-> "grad", of |-> g] : g \in {"g1", "g2"}}

\* plain tensor b wrapped once for each level of W up to l, lowest innermost
RECURSIVE Wrapped(_, _, _)
Wrapped(b, W, l) ==
    IF l = 0 THEN Tensor(b)
    ELSE IF l \in W
         THEN TensorWrapper(b + NumTensors * l, l, Wrapped(b, W, l - 1))
         ELSE Wrapped(b, W, l - 1)

GradLevels(s) == {s[i].level : i \in {j \in 1..Len(s) : s[j].type = "Grad"}}

\* the levels at which a caller's tensors are wrapped: every Grad level, none,
\* or the topmost Grad level alone
WrapLevels(s) ==
    {GradLevels(s), {}}
    \cup {{l} : l \in {m \in GradLevels(s) : \A n \in GradLevels(s) : n <= m}}

\* the operand tuples a caller passes, its tensors wrapped at the levels W
OperandTuples(W) ==
    LET a == Wrapped(1, W, MaxDepth)
        b == Wrapped(NumTensors, W, MaxDepth)
        inner == IF a.kind = "wrapper" THEN a.value ELSE a
    IN {<<a, IntLeaf>>,
        <<List(<<a, StrLeaf>>), b>>,
        <<a, inner>>}

NoArgs == [autograd_function |-> None, operands |-> <<>>, kwargs |-> "none"]

NoPre == [stack |-> <<>>, grad_enabled |-> TRUE, autograd_function_enabled |-> FALSE,
          autograd_function |-> None, operands |-> <<>>, kwargs |-> "none"]

\* one entry of the log
Event(ev, handler, interpreter, f, a, kw) ==
    [ev |-> ev, handler |-> handler, interpreter |-> interpreter,
     autograd_function |-> f, args |-> a, kwargs |-> kw,
     stack |-> stack, lowered |-> lowered, grad_enabled |-> grad_enabled,
     autograd_function_enabled |-> autograd_function_enabled]

-----------------------------------------------------------------------------
(* Initial state: no transform active, nothing being called *)

Init ==
    /\ stack = <<>>
    /\ lowered = <<>>
    /\ grad_enabled = TRUE
    /\ autograd_function_enabled = FALSE
    /\ pc = "idle"
    /\ args = NoArgs
    /\ frames = <<>>
    /\ ret = None
    /\ exc = NoError
    /\ next_id = FirstFreshId
    /\ pre = NoPre
    /\ log = <<>>
    /\ nodes = {}

-----------------------------------------------------------------------------
(* The caller, between calls *)

\* the caller enters a transform (grad, vmap, jvp, functionalize)
PushLayer(t) ==
    /\ pc = "idle"
    /\ Len(stack) < MaxDepth
    /\ stack' = Append(stack, Layer(Len(stack) + 1, t))
    /\ UNCHANGED <<lowered, grad_enabled, autograd_function_enabled, pc, args,
                   frames, ret, exc, next_id, pre, log, nodes>>

\* the caller leaves its innermost transform
PopLayer ==
    /\ pc = "idle"
    /\ stack # <<>>
    /\ stack' = Front(stack)
    /\ UNCHANGED <<lowered, grad_enabled, autograd_function_enabled, pc, args,
                   frames, ret, exc, next_id, pre, log, nodes>>

\* the caller enters or leaves torch.no_grad()
SetGradEnabled(b) ==
    /\ pc = "idle"
    /\ grad_enabled # b
    /\ grad_enabled' = b
    /\ UNCHANGED <<stack, lowered, autograd_function_enabled, pc, args,
                   frames, ret, exc, next_id, pre, log, nodes>>

\* the caller enters or leaves enable_autograd_function()
SetAutogradFunctionEnabled(b) ==
    /\ pc = "idle"
    /\ autograd_function_enabled # b
    /\ autograd_function_enabled' = b
    /\ UNCHANGED <<stack, lowered, grad_enabled, pc, args,
                   frames, ret, exc, next_id, pre, log, nodes>>

\* the caller calls custom_function_call(f, *operands, **kwargs)
Call(f, operands, kw) ==
    /\ pc = "idle"
    \* the transform handlers take no keyword arguments
    /\ kw # "none" => stack = <<>>
    /\ pc' = "call"
    /\ args' = [autograd_function |-> f, operands |-> operands, kwargs |-> kw]
    /\ pre' = [stack |-> stack, grad_enabled |-> grad_enabled,
               autograd_function_enabled |-> autograd_function_enabled,
               autograd_function |-> f, operands |-> operands, kwargs |-> kw]
    /\ UNCHANGED <<stack, lowered, grad_enabled, autograd_function_enabled,
                   frames, ret, exc, next_id, log, nodes>>

-----------------------------------------------------------------------------
(* CustomFunctionPyOperator.__call__ *)

\* autograd_function.apply(*operands, **kwargs): forward, then setup_context
apply(f, operands, kw) ==
    IF f.raises = "forward" THEN Raises(ForwardError)
    ELSE IF f.raises = "setup_context" /\ f.at = 0 THEN Raises(SetupContextError)
    ELSE Returns(forward(f, operands, next_id))

\* no transform is active: the autograd.Function is applied directly
apply_directly(autograd_function, operands, kw) ==
    /\ pc = "call"
    /\ ~_are_functorch_transforms_active
    /\ LET r == apply(autograd_function, operands, kw)
       IN /\ pc' = IF r.exc = NoError THEN "return" ELSE "raise"
          /\ ret' = r.value
          /\ exc' = r.exc
          /\ next_id' = IF r.exc = NoError /\ creates_tensor(autograd_function)
                        THEN next_id + 1 ELSE next_id
          /\ log' = log \o <<Event("apply", "none", NoLayer, autograd_function,
                                     operands, kw),
                               Event("forward", "none", NoLayer, autograd_function,
                                     operands, "none")>>
                         \o IF autograd_function.raises = "forward" THEN <<>>
                            ELSE <<Event("setup_context", "none", NoLayer,
                                         autograd_function,
                                         <<forward(autograd_function, operands,
                                                   next_id)>> \o operands,
                                         "none")>>
    /\ args' = NoArgs
    /\ UNCHANGED <<stack, lowered, grad_enabled, autograd_function_enabled,
                   frames, pre, nodes>>

\* a mistake for CallBypass: the keyword arguments are not passed on
CallBypass_NoKwargs == apply_directly(args.autograd_function, args.operands, "none")

\* autograd_function = args[0]; autograd_function.apply(*args[1:], **kwargs)
CallBypass == apply_directly(args.autograd_function, args.operands, args.kwargs)

\* a mistake for CallGrad: the redispatch is made one level too low, the layer
\* under the handler's own being taken off the stack as well
CallGrad_LowerTwice ==
    /\ pc = "call"
    /\ _are_functorch_transforms_active
    /\ functorch_table(Top(stack).type) = "custom_function_call_grad"
    /\ LET interpreter == Top(stack)
           autograd_function == args.autograd_function
           operands == args.operands
           level == interpreter.level
           unwrapped_operands ==
               tree_map_only_Tensor(level, Tuple(operands)).ch
       IN /\ frames' = Append(frames,
                [interpreter |-> interpreter, level |-> level,
                 autograd_function |-> autograd_function,
                 operands |-> operands,
                 unwrapped_operands |-> unwrapped_operands,
                 prev_autograd_function_enabled |-> autograd_function_enabled,
                 prev_grad_enabled |-> grad_enabled,
                 output |-> None,
                 pc |-> "redispatch"])
          /\ autograd_function_enabled' = TRUE
          /\ grad_enabled' = TRUE
          /\ stack' = IF Len(stack) > 1 THEN Front(Front(stack)) ELSE Front(stack)
          /\ lowered' = Append(lowered, interpreter)
          /\ args' = [autograd_function |-> autograd_function,
                      operands |-> unwrapped_operands, kwargs |-> "none"]
          /\ log' = Append(log, Event("handler", "custom_function_call_grad",
                                      interpreter, autograd_function, operands,
                                      args.kwargs))
    /\ UNCHANGED <<pc, ret, exc, next_id, pre, nodes>>

\* a mistake for CallGrad: the redispatch is made without torch.enable_grad()
CallGrad_GradAsFound ==
    /\ pc = "call"
    /\ _are_functorch_transforms_active
    /\ functorch_table(Top(stack).type) = "custom_function_call_grad"
    /\ LET interpreter == Top(stack)
           autograd_function == args.autograd_function
           operands == args.operands
           level == interpreter.level
           unwrapped_operands ==
               tree_map_only_Tensor(level, Tuple(operands)).ch
       IN /\ frames' = Append(frames,
                [interpreter |-> interpreter, level |-> level,
                 autograd_function |-> autograd_function,
                 operands |-> operands,
                 unwrapped_operands |-> unwrapped_operands,
                 prev_autograd_function_enabled |-> autograd_function_enabled,
                 prev_grad_enabled |-> grad_enabled,
                 output |-> None,
                 pc |-> "redispatch"])
          \* with enable_autograd_function():
          /\ autograd_function_enabled' = TRUE
          \* with maybe_interpreter.lower():
          /\ grad_enabled' = grad_enabled
          /\ stack' = Front(stack)
          /\ lowered' = Append(lowered, interpreter)
          \* custom_function_call(autograd_function, *unwrapped_operands)
          /\ args' = [autograd_function |-> autograd_function,
                      operands |-> unwrapped_operands, kwargs |-> "none"]
          /\ log' = Append(log, Event("handler", "custom_function_call_grad",
                                      interpreter, autograd_function, operands,
                                      args.kwargs))
    /\ UNCHANGED <<pc, ret, exc, next_id, pre, nodes>>

\* Generated.setup_context
Generated_setup_context(autograd_function, ctx, outputs, operands) ==
    setup_context(autograd_function, ctx, outputs, operands)

\* a mistake for Generated.backward: the result is not returned
Generated_backward_NoResult(autograd_function, ctx, grads) == None

\* Generated.backward
Generated_backward(autograd_function, ctx, grads) ==
    backward(autograd_function, ctx, grads)

\* the top interpreter is a Grad interpreter: custom_function_call_grad runs up
\* to the redispatch made by the forward of its Generated function
CallGrad ==
    /\ pc = "call"
    /\ _are_functorch_transforms_active
    /\ functorch_table(Top(stack).type) = "custom_function_call_grad"
    /\ LET interpreter == Top(stack)
           autograd_function == args.autograd_function
           operands == args.operands
           level == interpreter.level
           unwrapped_operands ==
               tree_map_only_Tensor(level, Tuple(operands)).ch
       IN /\ frames' = Append(frames,
                [interpreter |-> interpreter, level |-> level,
                 autograd_function |-> autograd_function,
                 operands |-> operands,
                 unwrapped_operands |-> unwrapped_operands,
                 prev_autograd_function_enabled |-> autograd_function_enabled,
                 prev_grad_enabled |-> grad_enabled,
                 output |-> None,
                 pc |-> "redispatch"])
          \* with enable_autograd_function():
          /\ autograd_function_enabled' = TRUE
          \* with torch.enable_grad(), maybe_interpreter.lower():
          /\ grad_enabled' = TRUE
          /\ stack' = Front(stack)
          /\ lowered' = Append(lowered, interpreter)
          \* custom_function_call(autograd_function, *unwrapped_operands)
          /\ args' = [autograd_function |-> autograd_function,
                      operands |-> unwrapped_operands, kwargs |-> "none"]
          /\ log' = Append(log, Event("handler", "custom_function_call_grad",
                                      interpreter, autograd_function, operands,
                                      args.kwargs))
    /\ UNCHANGED <<pc, ret, exc, next_id, pre, nodes>>

\* the top interpreter is a Vmap, Jvp or Functionalize interpreter
CallStub ==
    /\ pc = "call"
    /\ _are_functorch_transforms_active
    /\ functorch_table(Top(stack).type) \in StubHandlers
    /\ LET interpreter == Top(stack)
           kernel == functorch_table(interpreter.type)
           r == stub_kernel(kernel, interpreter,
                            args.autograd_function, args.operands)
       IN /\ pc' = IF r.exc = NoError THEN "return" ELSE "raise"
          /\ ret' = r.value
          /\ exc' = r.exc
          /\ log' = Append(log, Event("handler", kernel, interpreter,
                                      args.autograd_function, args.operands,
                                      args.kwargs))
    /\ args' = NoArgs
    /\ UNCHANGED <<stack, lowered, grad_enabled, autograd_function_enabled,
                   frames, next_id, pre, nodes>>

\* the top interpreter is of a type that has no handler: the lookup of
\* super().__call__ fails and no handler runs
CallUnregistered ==
    /\ pc = "call"
    /\ _are_functorch_transforms_active
    /\ functorch_table(Top(stack).type) = NoKernel
    /\ pc' = "raise"
    /\ ret' = None
    /\ exc' = UnregisteredTransformType
    /\ log' = Append(log, Event("lookup", NoKernel, Top(stack),
                                args.autograd_function, args.operands,
                                args.kwargs))
    /\ args' = NoArgs
    /\ UNCHANGED <<stack, lowered, grad_enabled, autograd_function_enabled,
                   frames, next_id, pre, nodes>>

-----------------------------------------------------------------------------
(* custom_function_call_grad, after the redispatch *)

TopFrame == frames[Len(frames)]

SetTopFrame(fr) == [frames EXCEPT ![Len(frames)] = fr]

\* a mistake for ExitScopes: gradient recording is left enabled
ExitScopes_GradLeftEnabled ==
    /\ pc = "return"
    /\ frames # <<>>
    /\ TopFrame.pc = "redispatch"
    /\ stack' = Append(stack, TopFrame.interpreter)
    /\ lowered' = Front(lowered)
    /\ frames' = SetTopFrame([TopFrame EXCEPT !.output = ret, !.pc = "wrap"])
    /\ UNCHANGED <<grad_enabled, autograd_function_enabled, pc, args, ret, exc,
                   next_id, pre, log, nodes>>

\* the redispatch returned: the with block of Generated.forward is left
ExitScopes ==
    /\ pc = "return"
    /\ frames # <<>>
    /\ TopFrame.pc = "redispatch"
    \* maybe_interpreter.lower().__exit__
    /\ stack' = Append(stack, TopFrame.interpreter)
    /\ lowered' = Front(lowered)
    \* torch.enable_grad().__exit__
    /\ grad_enabled' = TopFrame.prev_grad_enabled
    /\ frames' = SetTopFrame([TopFrame EXCEPT !.output = ret, !.pc = "wrap"])
    /\ UNCHANGED <<autograd_function_enabled, pc, args, ret, exc, next_id,
                   pre, log, nodes>>

\* Generated.forward returns wrap_outputs_maintaining_identity(...)
WrapOutputs ==
    /\ pc = "return"
    /\ frames # <<>>
    /\ TopFrame.pc = "wrap"
    /\ LET fr == TopFrame
           fresh == fresh_positions(fr.output, Tuple(fr.unwrapped_operands))
           wrapped == wrap_outputs_maintaining_identity(
                          fr.output, Tuple(fr.unwrapped_operands),
                          Tuple(fr.operands), fr.level)
       IN /\ ret' = wrapped
          /\ next_id' = next_id + Cardinality(fresh)
          /\ frames' = SetTopFrame([fr EXCEPT !.output = wrapped,
                                              !.pc = "setup_context"])
          /\ log' = Append(log, Event("wrap", "none", fr.interpreter,
                                      fr.autograd_function,
                                      <<fr.output, wrapped,
                                        Tuple(fr.unwrapped_operands),
                                        Tuple(fr.operands)>>, "none"))
    /\ UNCHANGED <<stack, lowered, grad_enabled, autograd_function_enabled,
                   pc, args, exc, pre, nodes>>

\* Generated.apply calls Generated.setup_context, which delegates to the
\* autograd.Function; then custom_function_call_grad returns flat_out
SetupContext ==
    /\ pc = "return"
    /\ frames # <<>>
    /\ TopFrame.pc = "setup_context"
    /\ LET fr == TopFrame
           f == fr.autograd_function
           failed == f.raises = "setup_context" /\ f.at = fr.level
           ctx == Ctx(fr.level)
           result == Generated_setup_context(f, ctx, fr.output, fr.operands)
       IN /\ log' = log \o
                  <<Event("Generated.setup_context", "none", fr.interpreter, f,
                          <<ctx, fr.output, Tuple(fr.operands),
                            IF failed THEN None ELSE result>>, "none"),
                    Event("setup_context", "none", fr.interpreter, f,
                          <<fr.output>> \o fr.operands, "none")>>
          /\ IF failed
             THEN /\ pc' = "raise"
                  /\ exc' = SetupContextError
                  /\ ret' = None
                  /\ UNCHANGED <<frames, autograd_function_enabled, nodes>>
             ELSE \* enable_autograd_function().__exit__
                  /\ autograd_function_enabled' = fr.prev_autograd_function_enabled
                  /\ frames' = Front(frames)
                  /\ nodes' = nodes \cup {fr.level}
                  /\ UNCHANGED <<pc, exc, ret>>
    /\ UNCHANGED <<stack, lowered, grad_enabled, args, next_id, pre>>

\* a mistake for Unwind: the handler catches the error and returns None
Unwind_Swallow ==
    /\ pc = "raise"
    /\ frames # <<>>
    /\ LET fr == TopFrame
       IN /\ IF fr.pc = "redispatch"
             THEN /\ stack' = Append(stack, fr.interpreter)
                  /\ lowered' = Front(lowered)
                  /\ grad_enabled' = fr.prev_grad_enabled
             ELSE UNCHANGED <<stack, lowered, grad_enabled>>
          /\ autograd_function_enabled' = fr.prev_autograd_function_enabled
    /\ frames' = Front(frames)
    /\ pc' = "return"
    /\ exc' = NoError
    /\ UNCHANGED <<args, ret, next_id, pre, log, nodes>>

\* a mistake for Unwind: lower() is left without its interpreter being put back
Unwind_NoRestore ==
    /\ pc = "raise"
    /\ frames # <<>>
    /\ grad_enabled' = TopFrame.prev_grad_enabled
    /\ autograd_function_enabled' = TopFrame.prev_autograd_function_enabled
    /\ frames' = Front(frames)
    /\ UNCHANGED <<stack, lowered, pc, args, ret, exc, next_id, pre, log, nodes>>

\* an error leaves custom_function_call_grad through its with blocks
Unwind ==
    /\ pc = "raise"
    /\ frames # <<>>
    /\ LET fr == TopFrame
       IN /\ IF fr.pc = "redispatch"
             THEN /\ stack' = Append(stack, fr.interpreter)
                  /\ lowered' = Front(lowered)
                  /\ grad_enabled' = fr.prev_grad_enabled
             ELSE UNCHANGED <<stack, lowered, grad_enabled>>
          /\ autograd_function_enabled' = fr.prev_autograd_function_enabled
    /\ frames' = Front(frames)
    /\ UNCHANGED <<pc, args, ret, exc, next_id, pre, log, nodes>>

\* the autograd engine runs the backward of the Generated function of a level
Backward(level, grads) ==
    /\ pc = "return"
    /\ frames = <<>>
    /\ level \in nodes
    /\ LET f == pre.autograd_function
       IN /\ log' = Append(log, Event("backward", "none", Layer(level, "Grad"), f,
                                      <<Ctx(level), grads>>, "none"))
          /\ IF f.raises = "backward"
             THEN pc' = "backward raise" /\ exc' = BackwardError /\ ret' = None
             ELSE /\ pc' = "backward return"
                  /\ ret' = Generated_backward(f, Ctx(level), grads)
                  /\ exc' = NoError
    /\ UNCHANGED <<stack, lowered, grad_enabled, autograd_function_enabled,
                   args, frames, next_id, pre, nodes>>

\* the top-level call, or the backward pass, is over
Done == frames = <<>> /\ pc \in {"return", "raise", "backward return", "backward raise"}

\* the caller takes the result or catches the error, and goes on
Finish ==
    /\ Done
    /\ pc' = "idle"
    /\ ret' = None
    /\ exc' = NoError
    /\ next_id' = FirstFreshId
    /\ pre' = NoPre
    /\ log' = <<>>
    /\ nodes' = {}
    /\ UNCHANGED <<stack, lowered, grad_enabled, autograd_function_enabled,
                   args, frames>>

Next ==
    \/ \E t \in LayerTypes : PushLayer(t)
    \/ PopLayer
    \/ \E b \in BOOLEAN : SetGradEnabled(b)
    \/ \E b \in BOOLEAN : SetAutogradFunctionEnabled(b)
    \/ \E f \in Descriptors, W \in WrapLevels(stack), kw \in {"none", "k"} :
          \E operands \in OperandTuples(W) : Call(f, operands, kw)
    \/ CallBypass
    \/ CallGrad
    \/ CallStub
    \/ CallUnregistered
    \/ ExitScopes
    \/ WrapOutputs
    \/ SetupContext
    \/ Unwind
    \/ \E level \in 1..MaxDepth, grads \in Grads : Backward(level, grads)
    \/ Finish

Spec == Init /\ [][Next]_vars

\* the steps of a call in progress; the interpreter runs the next one whenever
\* there is one to run
Step ==
    \/ CallBypass
    \/ CallGrad
    \/ CallStub
    \/ CallUnregistered
    \/ ExitScopes
    \/ WrapOutputs
    \/ SetupContext
    \/ Unwind

FairSpec == Spec /\ WF_vars(Step)

-----------------------------------------------------------------------------
(* Properties *)

\* a top-level custom_function_call has returned or raised
CallDone == frames = <<>> /\ pc \in {"return", "raise"}

Returned == CallDone /\ pc = "return"

Raised == CallDone /\ pc = "raise"

Events(ev) == {i \in 1..Len(log) : log[i].ev = ev}

AllGrad(s) == \A i \in 1..Len(s) : s[i].type = "Grad"

\* the error each unsupported transform is documented to raise
UnsupportedTransform(type) ==
    CASE type = "Vmap" -> "NYI: vmap rule for custom_function_call"
      [] type = "Jvp" -> "NYI: jvp rule for custom_function_call"
      [] type = "Functionalize" -> "NYI: Functionalize rule for custom_function_call"

\* the handler each transform type is documented to have
RegisteredHandler(type) ==
    CASE type = "Grad" -> "custom_function_call_grad"
      [] type = "Vmap" -> "custom_function_call_vmap"
      [] type = "Jvp" -> "custom_function_call_jvp"
      [] type = "Functionalize" -> "custom_function_call_functionalize"

\* C1 (Bypass): a call made with no transform active applies the
\* autograd.Function exactly once, to the caller's operands and keyword
\* arguments as given, and its outcome is the outcome of that apply: the value
\* forward returned, unwrapped, or the error the Function raised.  No handler
\* runs and nothing is wrapped.  An apply only ever happens with no transform
\* active.
C1_Bypass ==
    /\ \A i \in Events("apply") : log[i].stack = <<>>
    /\ (CallDone /\ pre.stack = <<>>) =>
          LET f == pre.autograd_function
              fails == f.raises = "forward" \/ (f.raises = "setup_context" /\ f.at = 0)
          IN /\ Cardinality(Events("apply")) = 1
             /\ \A i \in Events("apply") :
                   /\ log[i].args = pre.operands
                   /\ log[i].kwargs = pre.kwargs
                   /\ log[i].autograd_function = f
             /\ Events("handler") = {}
             /\ Events("wrap") = {}
             /\ pc = "raise" <=> fails
             /\ pc = "return" => ret = forward(f, pre.operands, FirstFreshId)
             /\ pc = "raise" =>
                   exc = IF f.raises = "forward" THEN ForwardError
                         ELSE SetupContextError

C1_Witness ==
    /\ Returned
    /\ pre.stack = <<>>
    /\ pre.kwargs = "k"
    /\ pre.autograd_function.forward = "input1"
    /\ ret = pre.operands[1]
    /\ ret.kind = "tensor"

\* C2 (Routing): every handler that runs is the one registered for the type of
\* the interpreter on top of the active stack at that moment, and it is passed
\* that interpreter and the Function of the call; the first handler of a call
\* gets the caller's operands.  With a transform active the dispatch operator
\* does not apply the Function itself.
C2_Routing ==
    /\ \A i \in Events("handler") :
          /\ log[i].stack # <<>>
          /\ log[i].handler = RegisteredHandler(Top(log[i].stack).type)
          /\ log[i].interpreter = Top(log[i].stack)
          /\ log[i].autograd_function = pre.autograd_function
    /\ \A i \in Events("apply") : log[i].stack = <<>>
    /\ (pre.stack # <<>> /\ Top(pre.stack).type \in TransformType
          /\ pc # "call" /\ pc # "idle") =>
          /\ log # <<>>
          /\ log[1].ev = "handler"
          /\ log[1].stack = pre.stack
          /\ log[1].args = pre.operands

\* a jvp handler ran on top of a Vmap layer, for operands wrapped at a Grad level below
C2_Witness ==
    /\ Raised
    /\ Len(pre.stack) = 3
    /\ pre.stack[1].type = "Grad"
    /\ pre.stack[2].type = "Vmap"
    /\ pre.stack[3].type = "Jvp"
    /\ log[1].handler = "custom_function_call_jvp"
    /\ pre.operands[1].kind = "wrapper"

\* C3 (Stub handlers): a Vmap, Jvp or Functionalize handler that is invoked
\* raises the not-implemented error naming its transform, returns nothing, and
\* nothing is invoked after it: no forward, setup_context or backward.
C3_StubsFail ==
    \A i \in Events("handler") :
        log[i].interpreter.type # "Grad" =>
            /\ i = Len(log)
            /\ pc = "raise"
            /\ exc = UnsupportedTransform(log[i].interpreter.type)
            /\ ret = None

C3_Witness ==
    /\ pc = "raise"
    /\ Len(log) = 3
    /\ log[3].handler = "custom_function_call_jvp"
    /\ log[3].autograd_function.raises = "none"
    /\ exc = "NYI: jvp rule for custom_function_call"

\* C4 (Unsupported-transform scenario): a call made with Vmap, Jvp or
\* Functionalize on top of the stack raises that transform's error, and the
\* interpreter stack is then what it was before the call, layer by layer.
C4_UnsupportedTransform ==
    (CallDone /\ pre.stack # <<>>
       /\ Top(pre.stack).type \in {"Vmap", "Jvp", "Functionalize"}) =>
        /\ pc = "raise"
        /\ exc = UnsupportedTransform(Top(pre.stack).type)
        /\ stack = pre.stack
        /\ lowered = <<>>

C4_Witness ==
    /\ Raised
    /\ Len(pre.stack) = 2
    /\ Top(pre.stack).type = "Vmap"
    /\ stack = pre.stack
    /\ exc = "NYI: vmap rule for custom_function_call"

Reverse(q) == [i \in 1..Len(q) |-> q[Len(q) + 1 - i]]

\* C5 (Stack discipline under failure): while an error propagates out of a
\* call made with a Grad layer on top, the only interpreters still lowered are
\* those of the handlers the error has not left yet, so at every nesting depth
\* the call the error has just left has its stack back; once the error is out
\* of the top-level call the stack is the pre-call stack and no interpreter is
\* lowered.
C5_StackDisciplineUnderFailure ==
    (pc = "raise" /\ pre.stack # <<>> /\ Top(pre.stack).type = "Grad") =>
        /\ stack \o Reverse(lowered) = pre.stack
        /\ Len(lowered) =
              Cardinality({i \in 1..Len(frames) : frames[i].pc = "redispatch"})
        /\ \A i \in 1..Len(lowered) : lowered[i] = frames[i].interpreter
        /\ frames = <<>> => (stack = pre.stack /\ lowered = <<>>)

\* forward raised under three Grad layers and the error is out of the call
C5_Witness ==
    /\ Raised
    /\ exc = ForwardError
    /\ Len(pre.stack) = 3
    /\ AllGrad(pre.stack)
    /\ Cardinality(Events("handler")) = 3
    /\ stack = pre.stack

\* C9 (Scoped restoration): when a top-level call returns or raises, the
\* active layers, the gradient-recording flag and the flag that marks a
\* generated function as being defined are what they were when it was made.
C9_ScopedRestoration ==
    CallDone =>
        /\ stack = pre.stack
        /\ lowered = <<>>
        /\ grad_enabled = pre.grad_enabled
        /\ autograd_function_enabled = pre.autograd_function_enabled

\* a call through two Grad layers returned, made with recording disabled and
\* the marker set
C9_Witness ==
    /\ Returned
    /\ nodes = {1, 2}
    /\ pre.grad_enabled = FALSE
    /\ pre.autograd_function_enabled = TRUE
    /\ grad_enabled = FALSE
    /\ autograd_function_enabled = TRUE
    /\ Len(stack) = 2

\* x with the wrappers of the levels l, l - 1, ..., 1 taken off
RECURSIVE Base(_, _)
Base(x, l) == IF l = 0 THEN x ELSE Base(_unwrap_for_grad(x, l), l - 1)

BaseOperands(operands, l) ==
    [i \in 1..Len(operands) |->
        tree_unflatten([j \in 1..num_leaves(tree_spec(operands[i])) |->
                           Base(tree_leaves(operands[i])[j], l)],
                       tree_spec(operands[i]))]

\* no two tensor leaves of the operands are the same tensor underneath
NoAlias(operands, l) ==
    LET o == tree_leaves(Tuple(operands))
    IN \A i, j \in 1..Len(o) :
          (i # j /\ isinstance_Tensor(o[i]) /\ isinstance_Tensor(o[j]))
             => id(Base(o[i], l)) # id(Base(o[j], l))

SameStructure(a, b) ==
    LET la == tree_leaves(a)
        lb == tree_leaves(b)
    IN /\ tree_spec(a) = tree_spec(b)
       /\ Len(la) = Len(lb)
       /\ \A i \in 1..Len(la) :
             /\ isinstance_Tensor(la[i]) <=> isinstance_Tensor(lb[i])
             /\ ~isinstance_Tensor(la[i]) => la[i] = lb[i]

\* C7 (Non-tensor passthrough and structure preservation): the operands a Grad
\* handler redispatches have the structure and the non-tensor leaves of the
\* operands it was given; the tree wrap_outputs_maintaining_identity returns
\* has the structure, the number of leaves, the leaf order and the non-tensor
\* leaves of the raw output; and so has the result of a call through one or
\* more Grad layers, compared with what forward returned.
C7_NonTensorPassthrough ==
    /\ \A i \in Events("handler") :
          (log[i].handler = "custom_function_call_grad" /\ i < Len(log)) =>
              SameStructure(Tuple(log[i + 1].args), Tuple(log[i].args))
    /\ \A e \in Events("wrap") :
          LET out == tree_leaves(log[e].args[1])
              res == tree_leaves(log[e].args[2])
          IN /\ SameStructure(log[e].args[2], log[e].args[1])
             /\ \A i \in 1..Len(out) :
                   isinstance_Tensor(out[i]) =>
                      id(_unwrap_for_grad(res[i], log[e].interpreter.level))
                         = id(out[i])
    /\ (Returned /\ AllGrad(pre.stack) /\ pre.stack # <<>>) =>
          LET depth == Len(pre.stack)
              raw == forward(pre.autograd_function,
                             BaseOperands(pre.operands, depth), FirstFreshId)
          IN /\ SameStructure(ret, raw)
             /\ \A i \in 1..Len(tree_leaves(raw)) :
                   isinstance_Tensor(tree_leaves(raw)[i]) =>
                      Base(tree_leaves(ret)[i], depth) = tree_leaves(raw)[i]

\* a nested output with an integer and a string came back through two Grad
\* layers, for operands that hold a string too
C7_Witness ==
    /\ Returned
    /\ Len(pre.stack) = 2
    /\ AllGrad(pre.stack)
    /\ pre.autograd_function.forward = "mixed"
    /\ pre.operands[1].kind = "list"
    /\ ret.kind = "list"
    /\ Len(tree_leaves(ret)) = 5
    /\ tree_leaves(ret)[2] = StrLeaf
    /\ tree_leaves(ret)[4] = IntLeaf
    /\ tree_leaves(ret)[3].kind = "wrapper"

\* the redispatch of every Grad handler sees the stack one layer shorter,
\* with the level under the handler's own on top, or no layer at all
LevelDecrease ==
    /\ \A i \in Events("handler") :
          (log[i].handler = "custom_function_call_grad" /\ i < Len(log)) =>
              /\ log[i + 1].ev \in {"handler", "apply", "lookup"}
              /\ log[i + 1].stack = Front(log[i].stack)
              /\ log[i + 1].ev \in {"handler", "lookup"} =>
                    log[i + 1].interpreter.level = log[i].interpreter.level - 1
              /\ log[i + 1].ev = "apply" => log[i].interpreter.level = 1
    /\ (pc = "call" /\ frames # <<>>) =>
          /\ Len(stack) = TopFrame.level - 1
          /\ stack # <<>> => Top(stack).level = TopFrame.level - 1

\* C8 (Level decrease and termination): each redispatch made by a Grad handler
\* sees the top level exactly one lower than the handler's own; and a call
\* made under a stack of Grad layers whose Function does not raise reaches the
\* direct apply of the no-transform case and returns.
C8_LevelDecreaseAndTermination ==
    /\ []LevelDecrease
    /\ (pc = "call" /\ AllGrad(pre.stack)
          /\ pre.autograd_function.raises \in {"none", "backward"})
         ~> (Returned /\ Cardinality(Events("apply")) = 1
               /\ Cardinality(Events("handler")) = Len(pre.stack))

\* the call made under three Grad layers has returned, by way of three
\* handlers and the direct apply
C8_Witness ==
    /\ Returned
    /\ Len(pre.stack) = 3
    /\ AllGrad(pre.stack)
    /\ Cardinality(Events("handler")) = 3
    /\ Cardinality(Events("apply")) = 1
    /\ {log[i].interpreter.level : i \in Events("handler")} = {1, 2, 3}
    /\ log[1].interpreter.level = 3

\* the error in flight is the one raised by the last thing invoked
ErrorIsTheOneRaised ==
    /\ pc = "raise" =>
          LET e == log[Len(log)]
          IN \/ /\ e.ev = "handler"
                /\ e.interpreter.type # "Grad"
                /\ exc = UnsupportedTransform(e.interpreter.type)
             \/ /\ e.ev = "lookup"
                /\ exc = UnregisteredTransformType
             \/ /\ e.ev = "forward"
                /\ e.autograd_function.raises = "forward"
                /\ exc = ForwardError
             \/ /\ e.ev = "setup_context"
                /\ e.autograd_function.raises = "setup_context"
                /\ e.autograd_function.at = e.interpreter.level
                /\ exc = SetupContextError
    /\ pc = "backward raise" =>
          /\ log[Len(log)].ev = "backward"
          /\ exc = BackwardError

\* whatever raised during the call in progress, the call is raising
NoErrorIsDropped ==
    \A i \in 1..Len(log) :
        LET e == log[i]
            f == e.autograd_function
        IN /\ (e.ev = "forward" /\ f.raises = "forward") => pc = "raise"
           /\ (e.ev = "setup_context" /\ f.raises = "setup_context"
                 /\ f.at = e.interpreter.level) => pc = "raise"
           /\ (e.ev = "handler" /\ e.interpreter.type # "Grad") => pc = "raise"
           /\ e.ev = "lookup" => pc = "raise"
           /\ (e.ev = "backward" /\ f.raises = "backward") => pc = "backward raise"

\* an error in flight leaves the innermost handler as it is, and nothing is
\* invoked on its way
ErrorPropagates ==
    (pc = "raise" /\ frames # <<>>) =>
        /\ pc' = "raise"
        /\ exc' = exc
        /\ ret' = None
        /\ frames' = Front(frames)
        /\ log' = log

\* C10 (No local recovery): an error raised by forward, setup_context or
\* backward of the Function, or by a stub handler reached through a
\* redispatch, leaves every enclosing Grad handler and the top-level call as
\* the same error: no handler catches or replaces it, calls anything again or
\* returns a value instead.
C10_NoLocalRecovery ==
    /\ []ErrorIsTheOneRaised
    /\ []NoErrorIsDropped
    /\ [][ErrorPropagates]_vars

\* the error of a Vmap stub under two Grad layers is out of the top-level call
C10_Witness ==
    /\ Raised
    /\ Len(pre.stack) = 3
    /\ pre.stack[1].type = "Vmap"
    /\ pre.stack[2].type = "Grad"
    /\ pre.stack[3].type = "Grad"
    /\ Len(log) = 3
    /\ exc = "NYI: vmap rule for custom_function_call"

\* C11 (Unregistered transform type): a custom_function_call made while the
\* interpreter on top of the active stack is of a type with no handler raises
\* UnregisteredTransformType at once: no handler runs for that interpreter, the
\* Function is not applied, nothing is invoked afterwards, and the error leaves
\* the top-level call as it is.
C11_UnregisteredTransformType ==
    /\ \A i \in 1..Len(log) :
          (log[i].stack # <<>> /\ Top(log[i].stack).type = UnregisteredType
             /\ log[i].ev \in {"handler", "apply", "lookup"}) =>
              /\ log[i].ev = "lookup"
              /\ log[i].interpreter = Top(log[i].stack)
              /\ i = Len(log)
              /\ pc = "raise"
              /\ exc = UnregisteredTransformType
              /\ ret = None
    /\ (pc \notin {"idle", "call"} /\ pre.stack # <<>>
          /\ Top(pre.stack).type = UnregisteredType) =>
          /\ Len(log) = 1
          /\ log[1].ev = "lookup"
          /\ pc = "raise"
    /\ \A i \in Events("lookup") : Top(log[i].stack).type \notin TransformType

\* the lookup failed in the redispatch of a Grad handler, and the error is out
\* of the top-level call
C11_Witness ==
    /\ Raised
    /\ exc = UnregisteredTransformType
    /\ Len(pre.stack) = 2
    /\ pre.stack[1].type = UnregisteredType
    /\ pre.stack[2].type = "Grad"
    /\ Len(log) = 2
    /\ log[2].ev = "lookup"
    /\ stack = pre.stack

\* x is t wrapped once at each of the levels l, l - 1, ..., 1, level 1 innermost
RECURSIVE WrappedOnceAtEach(_, _, _)
WrappedOnceAtEach(x, l, t) ==
    IF l = 0 THEN x = t
    ELSE /\ x.kind = "wrapper"
         /\ x.level = l
         /\ WrappedOnceAtEach(x.value, l - 1, t)

\* C12 (Fresh wrapping): whenever outputs are wrapped, a tensor output leaf that
\* is none of the flattened unwrapped inputs comes back as one new wrapper of
\* the handler's own level around that very leaf.  So a tensor that forward
\* creates comes back from a call under N Grad layers wrapped once at each of
\* the levels 1..N, level 1 innermost and level N outermost.
C12_FreshWrapping ==
    /\ \A e \in Events("wrap") :
          LET out == tree_leaves(log[e].args[1])
              res == tree_leaves(log[e].args[2])
              u == tree_leaves(log[e].args[3])
          IN /\ Len(res) = Len(out)
             /\ \A i \in 1..Len(out) :
                   (isinstance_Tensor(out[i])
                      /\ \A j \in 1..Len(u) : id(u[j]) # id(out[i]))
                   => /\ res[i].kind = "wrapper"
                      /\ res[i].level = log[e].interpreter.level
                      /\ res[i].value = out[i]
                      /\ \A j \in 1..Len(out) : j # i => id(res[j]) # id(res[i])
    /\ (Returned /\ AllGrad(pre.stack) /\ creates_tensor(pre.autograd_function)) =>
          \E a \in Events("apply") :
             LET base == tree_leaves(log[a + 2].args[1])
                 given == tree_leaves(Tuple(log[a].args))
                 got == tree_leaves(ret)
             IN /\ log[a + 2].ev = "setup_context"
                /\ Len(got) = Len(base)
                /\ \E i \in 1..Len(base) :
                      /\ isinstance_Tensor(base[i])
                      /\ \A j \in 1..Len(given) : id(given[j]) # id(base[i])
                /\ \A i \in 1..Len(base) :
                      (isinstance_Tensor(base[i])
                         /\ \A j \in 1..Len(given) : id(given[j]) # id(base[i]))
                      => WrappedOnceAtEach(got[i], Len(pre.stack), base[i])

\* forward made a tensor next to an input it returned, under three Grad
\* layers; the call returned it inside wrappers of the levels 3, 2 and 1
C12_Witness ==
    /\ Returned
    /\ Len(pre.stack) = 3
    /\ AllGrad(pre.stack)
    /\ pre.autograd_function.forward = "mixed"
    /\ Cardinality(Events("wrap")) = 3
    /\ LET x == tree_leaves(ret)[2]
       IN /\ x.kind = "wrapper" /\ x.level = 3
          /\ x.value.kind = "wrapper" /\ x.value.level = 2
          /\ x.value.value.kind = "wrapper" /\ x.value.value.level = 1
          /\ x.value.value.value.kind = "tensor"

\* the levels of the wrappers around a value
RECURSIVE WrapperLevels(_)
WrapperLevels(x) ==
    IF x.kind = "wrapper" THEN {x.level} \cup WrapperLevels(x.value) ELSE {}

\* C13 (Unwrapping per level): the redispatch of the Grad handler of level L
\* gets the handler's operands in the same structure, each tensor leaf wrapped
\* at level L replaced by what that wrapper holds and every other leaf passed
\* as it is.  What it gets carries no wrapper of level L or above, and the
\* operands the Function is applied to carry no wrapper at all.
C13_UnwrappingPerLevel ==
    /\ \A i \in Events("handler") :
          (log[i].handler = "custom_function_call_grad" /\ i < Len(log)) =>
              LET L == log[i].interpreter.level
                  given == tree_leaves(Tuple(log[i].args))
                  passed == tree_leaves(Tuple(log[i + 1].args))
              IN /\ log[i + 1].ev \in {"handler", "apply", "lookup"}
                 /\ tree_spec(Tuple(log[i + 1].args)) = tree_spec(Tuple(log[i].args))
                 /\ Len(passed) = Len(given)
                 /\ \A p \in 1..Len(given) :
                       /\ (given[p].kind = "wrapper" /\ given[p].level = L)
                             => passed[p] = given[p].value
                       /\ ~(given[p].kind = "wrapper" /\ given[p].level = L)
                             => passed[p] = given[p]
                       /\ isinstance_Tensor(passed[p]) =>
                             \A l \in WrapperLevels(passed[p]) : l < L
    /\ \A i \in Events("apply") :
          \A x \in Range(tree_leaves(Tuple(log[i].args))) :
             isinstance_Tensor(x) => WrapperLevels(x) = {}

\* operands wrapped at the levels 1, 2 and 3, the second one at 1 and 2 only:
\* the handler of level 3 took the wrapper of level 3 off the first and passed
\* the second as it was, and the Function was applied to plain tensors
C13_Witness ==
    /\ Returned
    /\ Len(pre.stack) = 3
    /\ AllGrad(pre.stack)
    /\ Len(pre.operands) = 2
    /\ WrapperLevels(pre.operands[1]) = {1, 2, 3}
    /\ WrapperLevels(pre.operands[2]) = {1, 2}
    /\ log[2].ev = "handler"
    /\ log[2].args[1] = pre.operands[1].value
    /\ log[2].args[2] = pre.operands[2]
    /\ \E i \in Events("apply") :
          /\ log[i].args[1].kind = "tensor"
          /\ log[i].args[2].kind = "tensor"

\* C14 (Scopes around redispatch): what a Grad handler redispatches to is
\* invoked with gradient recording enabled, whatever it was on entry, and with
\* the handler's interpreter lowered off the active stack.  Both scopes are left
\* before the outputs are wrapped: at that moment the stack, the lowered
\* interpreters and the gradient mode are as the handler found them, so the
\* handler's layer is the live top of the stack.  An interpreter is lowered
\* only during the redispatch of its own handler.
C14_ScopesAroundRedispatch ==
    /\ \A i \in Events("handler") :
          (log[i].handler = "custom_function_call_grad" /\ i < Len(log)) =>
              /\ log[i + 1].ev \in {"handler", "apply", "lookup"}
              /\ log[i + 1].grad_enabled = TRUE
              /\ log[i + 1].lowered = Append(log[i].lowered, log[i].interpreter)
              /\ log[i + 1].stack = Front(log[i].stack)
              /\ log[i].interpreter \notin Range(log[i + 1].stack)
    /\ \A e \in Events("wrap") :
          \E h \in Events("handler") :
             /\ h < e
             /\ log[h].interpreter = log[e].interpreter
             /\ log[e].stack = log[h].stack
             /\ Top(log[e].stack) = log[e].interpreter
             /\ log[e].lowered = log[h].lowered
             /\ log[e].interpreter \notin Range(log[e].lowered)
             /\ log[e].grad_enabled = log[h].grad_enabled
    /\ lowered = [k \in 1..Len(lowered) |-> frames[k].interpreter]
    /\ \A k \in 1..Len(frames) : k <= Len(lowered) <=> frames[k].pc = "redispatch"
    /\ (pc = "call" /\ frames # <<>>) => grad_enabled

\* gradient recording was disabled when the call was made under two Grad
\* layers: both redispatches ran with it enabled and the interpreters lowered,
\* each wrap ran with its layer back on top, and the wrap of the outer handler
\* with gradient recording disabled again
C14_Witness ==
    /\ Returned
    /\ ~pre.grad_enabled
    /\ Len(pre.stack) = 2
    /\ AllGrad(pre.stack)
    /\ Cardinality(Events("wrap")) = 2
    /\ \E a \in Events("apply") :
          /\ log[a].grad_enabled
          /\ log[a].stack = <<>>
          /\ Len(log[a].lowered) = 2
    /\ \A e \in Events("wrap") :
          /\ Top(log[e].stack) = log[e].interpreter
          /\ log[e].grad_enabled <=> log[e].interpreter.level = 1

\* C15 (Delegation): Generated.setup_context gives the Function's setup_context
\* the ctx, the outputs and the operands it was itself given and returns what
\* that returns; Generated.backward does the same with ctx and grads.  The
\* Generated function is applied to the operands of the handler as they came,
\* wrappers included, while the flag marking a generated function as being
\* defined is set.
C15_Delegation ==
    /\ \A g \in Events("Generated.setup_context") :
          LET e == log[g]
              raised == pc = "raise" /\ g + 1 = Len(log)
          IN /\ g < Len(log)
             /\ log[g + 1].ev = "setup_context"
             /\ log[g + 1].autograd_function = e.autograd_function
             /\ log[g + 1].args = <<e.args[2]>> \o e.args[3].ch
             /\ ~raised => e.args[4] = setup_context(e.autograd_function, e.args[1],
                                                     e.args[2], e.args[3].ch)
             /\ e.autograd_function_enabled
             /\ \E h \in Events("handler") :
                   /\ h < g
                   /\ log[h].interpreter = e.interpreter
                   /\ e.args[1] = Ctx(log[h].interpreter.level)
                   /\ e.args[3] = Tuple(log[h].args)
    /\ \A w \in Events("wrap") :
          /\ log[w].autograd_function_enabled
          /\ \E h \in Events("handler") :
                /\ h < w
                /\ log[h].interpreter = log[w].interpreter
                /\ log[w].args[4] = Tuple(log[h].args)
    /\ \A h \in Events("handler") :
          (log[h].handler = "custom_function_call_grad" /\ h < Len(log)) =>
              log[h + 1].autograd_function_enabled
    /\ frames # <<>> => autograd_function_enabled
    /\ pc = "backward return" =>
          LET e == log[Len(log)]
          IN /\ e.ev = "backward"
             /\ exc = NoError
             /\ ret = backward(e.autograd_function, e.args[1], e.args[2])

\* the backward of the node of level 2 returned what the Function's backward
\* made of its ctx and grads, after a call under two Grad layers in which each
\* Generated.setup_context was given operands still wrapped at its level
C15_Witness ==
    /\ pc = "backward return"
    /\ Len(pre.stack) = 2
    /\ AllGrad(pre.stack)
    /\ ~pre.autograd_function_enabled
    /\ ret.kind = "grads"
    /\ ret.ctx = Ctx(2)
    /\ ret.of.of = "g2"
    /\ Cardinality(Events("Generated.setup_context")) = 2
    /\ \A g \in Events("Generated.setup_context") :
          /\ log[g].args[4].kind = "saved"
          /\ log[g].args[4].ctx = Ctx(log[g].interpreter.level)
          /\ log[g].args[3].ch[1].kind = "wrapper"
          /\ log[g].args[3].ch[1].level = log[g].interpreter.level

\* C16 (Call counts and order): a call made under N Grad layers, N from 0 up,
\* that returns has run the Grad handler once for each layer, for the levels
\* N, N - 1, ..., 1 in that order and each inside the one before; it has
\* applied the Function once, after the N handlers were entered and before any
\* of them wrapped; and the outputs were wrapped once per level, for the
\* levels 1, 2, ..., N in that order.
C16_CallCountsAndOrder ==
    /\ (Returned /\ AllGrad(pre.stack)) =>
          LET N == Len(pre.stack)
          IN /\ Len(log) >= N + 1
             /\ Events("handler") = 1..N
             /\ \A k \in 1..N :
                   /\ log[k].handler = "custom_function_call_grad"
                   /\ log[k].interpreter.level = N - k + 1
                   /\ Len(log[k].lowered) = k - 1
             /\ Events("apply") = {N + 1}
             /\ Events("forward") = {N + 2}
             /\ Len(log[N + 1].lowered) = N
             /\ Cardinality(Events("wrap")) = N
             /\ \A w \in Events("wrap") :
                   /\ w > N + 1
                   /\ log[w].interpreter.level =
                         Cardinality({v \in Events("wrap") : v <= w})
                   /\ Len(log[w].lowered) = N - log[w].interpreter.level
             /\ Events("lookup") = {}
    /\ (pc \in {"call", "return"} /\ AllGrad(pre.stack) /\ pc # "idle") =>
          /\ Len(frames) <= Len(pre.stack)
          /\ Cardinality(Events("handler")) <= Len(pre.stack)
          /\ Cardinality(Events("apply")) <= 1
          /\ \A v, w \in Events("wrap") :
                v < w => log[v].interpreter.level < log[w].interpreter.level
          /\ \A h, k \in Events("handler") :
                h < k => log[h].interpreter.level > log[k].interpreter.level

\* a call under three Grad layers returned: handlers of the levels 3, 2, 1,
\* then the one apply, then wraps of the levels 1, 2, 3
C16_Witness ==
    /\ Returned
    /\ Len(pre.stack) = 3
    /\ AllGrad(pre.stack)
    /\ <<log[1].interpreter.level, log[2].interpreter.level,
         log[3].interpreter.level>> = <<3, 2, 1>>
    /\ log[4].ev = "apply"
    /\ \E u, v, w \in Events("wrap") :
          /\ u < v /\ v < w
          /\ <<log[u].interpreter.level, log[v].interpreter.level,
               log[w].interpreter.level>> = <<1, 2, 3>>

\* the positions of the Vmap, Jvp and Functionalize layers of a stack
Unsupported(s) ==
    {i \in 1..Len(s) : s[i].type \in {"Vmap", "Jvp", "Functionalize"}}

\* a stack with a Vmap, Jvp or Functionalize layer and Grad layers over the
\* highest of them
Mixed(s) ==
    /\ Unsupported(s) # {}
    /\ \A i \in 1..Len(s) : i > Max(Unsupported(s)) => s[i].type = "Grad"

\* C17 (Mixed stacks fail before the user function runs): a call made under a
\* stack that holds a Vmap, Jvp or Functionalize layer, with Grad layers over
\* the highest of them, never returns: it raises the error of that highest
\* layer's transform, after the Grad handlers of the layers above it and the
\* handler of that layer were entered and nothing else.  The Function is not
\* applied, its forward, setup_context and backward are not run, no output is
\* wrapped, and once the error is out the stack is what it was.
C17_MixedStacksFail ==
    Mixed(pre.stack) =>
        LET s == pre.stack
            hi == Max(Unsupported(s))
        IN /\ pc \in {"call", "raise"}
           /\ Events("apply") = {}
           /\ Events("forward") = {}
           /\ Events("wrap") = {}
           /\ Events("setup_context") = {}
           /\ Events("Generated.setup_context") = {}
           /\ Events("backward") = {}
           /\ Events("lookup") = {}
           /\ ret = None
           /\ \A i \in 1..Len(log) :
                 /\ log[i].ev = "handler"
                 /\ log[i].interpreter = s[Len(s) + 1 - i]
                 /\ Len(s) + 1 - i >= hi
           /\ pc = "raise" =>
                 /\ Len(log) = Len(s) + 1 - hi
                 /\ log[Len(log)].interpreter = s[hi]
                 /\ exc = UnsupportedTransform(s[hi].type)
           /\ pc = "call" => Len(log) < Len(s) + 1 - hi
           /\ Raised => (stack = s /\ lowered = <<>>)

\* Grad on top of Vmap on top of Jvp: the call raised the vmap error out of the
\* redispatch of the Grad handler, and the three layers are back
C17_Witness ==
    /\ Raised
    /\ Len(pre.stack) = 3
    /\ pre.stack[1].type = "Jvp"
    /\ pre.stack[2].type = "Vmap"
    /\ pre.stack[3].type = "Grad"
    /\ exc = "NYI: vmap rule for custom_function_call"
    /\ Len(log) = 2
    /\ log[1].handler = "custom_function_call_grad"
    /\ log[2].handler = "custom_function_call_vmap"
    /\ stack = pre.stack

====
